---- MODULE Spec2Model ----
(***************************************************************************)
(* Model of app.py (M-Pesa STK push integration): input validation, the    *)
(* process-wide access-token cache, the two retry wrappers, the payment    *)
(* submission, the /pay endpoint and the /callback endpoint.               *)
(***************************************************************************)
EXTENDS Integers, Sequences, FiniteSets, TLC

VARIABLES
    amountIn,    \* validate_amount: the raw argument
    amountOut,   \* validate_amount: its outcome (return or raise), or NotCalled
    cbData,      \* /callback: what the request carries
    cbResp,      \* /callback: the response, or NotCalled
    phoneIn,     \* validate_phone_number: the raw argument
    phoneOut,    \* validate_phone_number: its outcome, or NotCalled
    phoneAgain,  \* validate_phone_number applied to its own result
    now,                 \* the wall clock, datetime.now(), in seconds
    access_token_cache,  \* the module-level dict: token and expires_at
    issued,              \* number of tokens the provider has issued so far
    th,                  \* per request-handling thread: position and locals
    budget,              \* requests still to arrive
    workload             \* the environment: the threads that serve requests, the
                         \* requests that arrive and what the provider answers

unitVars == <<amountIn, amountOut, cbData, cbResp, phoneIn, phoneOut, phoneAgain>>
appVars == <<now, access_token_cache, issued, th, budget, workload>>
vars == <<amountIn, amountOut, cbData, cbResp, phoneIn, phoneOut, phoneAgain, now, access_token_cache, issued, th, budget, workload>>


(***************************************************************************)
(* Bounds of the model.                                                    *)
(***************************************************************************)
\* amounts are enumerated, in tenths of a unit, this far around 0 and around
\* the ceiling
AmountSpan == 15
\* longest CallbackMetadata.Item list enumerated
MaxItems == 2
\* request-handling threads of the host
NumThreads == 2
\* requests that arrive in one behaviour
MaxRequests == 3
\* the clock runs from 0 to MaxTime
MaxTime == 2
\* requests that arrive in one behaviour where termination is checked
LiveRequests == 2
\* phone numbers are enumerated as a prefix followed by up to MaxFill digits
MaxFill == 12

(***************************************************************************)
(* Outcomes of a Python call: a returned value or a raised exception.      *)
(***************************************************************************)
Return(v) == [tag |-> "return", value |-> v, exc |-> "", msg |-> ""]
Raise(e, m) == [tag |-> "raise", value |-> 0, exc |-> e, msg |-> m]
NotCalled == [tag |-> "not_called", value |-> 0, exc |-> "", msg |-> ""]

(***************************************************************************)
(* validate_amount (app.py 77-87).                                         *)
(* A raw amount is what the JSON body carries under "amount":              *)
(*   number  a JSON number, tenths/10                                      *)
(*   numstr  a string that float() parses to tenths/10                     *)
(*   nan     the string "nan";  inf  the string "inf"                      *)
(*   text    a non-empty string float() rejects (ValueError)               *)
(*   empty   the empty string (ValueError);  null  None (TypeError)        *)
(***************************************************************************)
AMOUNT_LIMIT == 70000

AmountTenths ==
    ((0 - AmountSpan)..AmountSpan)
        \cup ((AMOUNT_LIMIT * 10 - AmountSpan)..(AMOUNT_LIMIT * 10 + AmountSpan))
        \cup {1009}

RawAmounts ==
    [kind : {"number", "numstr"}, tenths : AmountTenths]
        \cup [kind : {"nan", "inf", "text", "empty", "null"}, tenths : {0}]

\* float(amount): a finite value (in tenths), nan, inf, or an exception
PyFloat(raw) ==
    CASE raw.kind \in {"number", "numstr"} -> [tag |-> "finite", tenths |-> raw.tenths, exc |-> ""]
      [] raw.kind = "nan" -> [tag |-> "nan", tenths |-> 0, exc |-> ""]
      [] raw.kind = "inf" -> [tag |-> "inf", tenths |-> 0, exc |-> ""]
      [] raw.kind \in {"text", "empty"} -> [tag |-> "raise", tenths |-> 0, exc |-> "ValueError"]
      [] OTHER -> [tag |-> "raise", tenths |-> 0, exc |-> "TypeError"]

\* int(x) of a finite float: truncation toward zero
PyInt(tenths) == IF tenths >= 0 THEN tenths \div 10 ELSE 0 - ((0 - tenths) \div 10)

\* the body of the try block, lines 80-85
validate_amount_try(raw) ==
    LET f == PyFloat(raw) IN
    CASE f.tag = "raise" -> Raise(f.exc, "float() failed")
      [] f.tag = "nan" -> Raise("ValueError", "cannot convert float NaN to integer")
      [] f.tag = "inf" -> Raise("ValueError", "Amount exceeds daily transaction limit")
      [] OTHER ->
            IF f.tenths <= 0
            THEN Raise("ValueError", "Amount must be greater than 0")
            ELSE IF f.tenths > AMOUNT_LIMIT * 10
            THEN Raise("ValueError", "Amount exceeds daily transaction limit")
            ELSE Return(PyInt(f.tenths))

\* the whole function: the except clause of line 86 catches every ValueError
\* and TypeError of the try block, the function's own two included
validate_amount(raw) ==
    LET r == validate_amount_try(raw) IN
    IF r.tag = "raise" /\ r.exc \in {"ValueError", "TypeError"}
    THEN Raise("ValueError", "Invalid amount format")
    ELSE r

(***************************************************************************)
(* /callback (app.py 236-264).                                             *)
(* The request, as far as the handler looks at it:                         *)
(*   json  what request.get_json() does: "raises", or returns "none",      *)
(*         a falsy value ({} [] 0 "" false), a truthy non-dict ("scalar"), *)
(*         or a non-empty dict                                             *)
(*   body, stk, meta  the value under Body / stkCallback /                 *)
(*         CallbackMetadata: "missing", "null", "nondict" or "dict"        *)
(*   rcKind, rcVal  ResultCode: missing, an int, or a string               *)
(*   item  the value under Item: "missing", "null", "noniter", or a list   *)
(*         whose elements are "pair" (a dict with a hashable Name),        *)
(*         "badname" (a dict whose Name is unhashable) or "nondict"        *)
(***************************************************************************)
JsonKinds == {"raises", "none", "falsy", "scalar", "dict"}
FieldKinds == {"missing", "null", "nondict", "dict"}
ItemKinds == {"pair", "badname", "nondict"}

ItemLists == UNION {[1..n -> ItemKinds] : n \in 0..MaxItems}

CallbackRequests ==
    [json : JsonKinds, body : FieldKinds, stk : FieldKinds,
     rcKind : {"missing", "int", "str"}, rcVal : {0, 1},
     meta : FieldKinds, itemKind : {"missing", "null", "noniter", "list"},
     items : ItemLists]

Response(status, code, desc) == [status |-> status, ResultCode |-> code, ResultDesc |-> desc]
NoResponse == Response(0, 0, "")

\* d.get(key, {}) followed by a .get on the result: the default only stands in
\* for a missing key; null and non-dict values have no .get (AttributeError)
GetThenGetFails(kind) == kind \in {"null", "nondict"}

\* the for loop of lines 255-258 over the Item value
ItemLoopFails(req) ==
    CASE req.itemKind = "missing" -> FALSE
      [] req.itemKind \in {"null", "noniter"} -> TRUE
      [] OTHER -> \E i \in 1..Len(req.items) : req.items[i] \in {"badname", "nondict"}

\* the try block, lines 240-261: TRUE when an exception escapes it
callback_try_fails(req) ==
    \/ req.json = "raises"
    \/ /\ req.json \notin {"none", "falsy"}
       /\ \/ req.json = "scalar"
          \/ GetThenGetFails(req.body)
          \/ /\ req.body = "dict"
             /\ GetThenGetFails(req.stk)
          \/ /\ req.body = "dict" /\ req.stk = "dict"
             /\ req.rcKind = "int" /\ req.rcVal = 0
             /\ \/ GetThenGetFails(req.meta)
                \/ req.meta = "dict" /\ ItemLoopFails(req)

callback(req) ==
    IF callback_try_fails(req)
    THEN Response(500, 1, "Internal error")
    ELSE IF req.json \in {"none", "falsy"}
    THEN Response(400, 1, "Invalid data")
    ELSE Response(200, 0, "Accepted")

(***************************************************************************)
(* validate_phone_number (app.py 50-75).  A phone is a sequence of         *)
(* one-character strings.                                                  *)
(***************************************************************************)
Digits == {"0", "1", "2", "3", "4", "5", "6", "7", "8", "9"}

\* re.sub(r'\D', '', str(phone)), line 56
StripNonDigits(phone) == SelectSeq(phone, LAMBDA c : c \in Digits)

\* str.startswith
StartsWith(s, prefix) ==
    /\ Len(s) >= Len(prefix)
    /\ SubSeq(s, 1, Len(prefix)) = prefix

\* lines 50-75 with the leading zero kept (line 68 without the slice)
validate_phone_number_keeps_zero(raw) ==
    IF raw = <<>>
    THEN Raise("ValueError", "Phone number is required")
    ELSE
        LET phone == StripNonDigits(raw) IN
        IF StartsWith(phone, <<"2", "5", "4">>)
        THEN IF Len(phone) # 12
             THEN Raise("ValueError", "Invalid phone number format")
             ELSE Return(phone)
        ELSE IF StartsWith(phone, <<"0">>)
        THEN IF Len(phone) # 10
             THEN Raise("ValueError", "Invalid phone number format")
             ELSE Return(<<"2", "5", "4">> \o phone)
        ELSE IF StartsWith(phone, <<"7">>) \/ StartsWith(phone, <<"1">>)
        THEN IF Len(phone) # 9
             THEN Raise("ValueError", "Invalid phone number format")
             ELSE Return(<<"2", "5", "4">> \o phone)
        ELSE Raise("ValueError", "Unsupported phone number format")

validate_phone_number(raw) ==
    IF raw = <<>>
    THEN Raise("ValueError", "Phone number is required")
    ELSE
        LET phone == StripNonDigits(raw) IN
        IF StartsWith(phone, <<"2", "5", "4">>)
        THEN IF Len(phone) # 12
             THEN Raise("ValueError", "Invalid phone number format")
             ELSE Return(phone)
        ELSE IF StartsWith(phone, <<"0">>)
        THEN IF Len(phone) # 10
             THEN Raise("ValueError", "Invalid phone number format")
             ELSE Return(<<"2", "5", "4">> \o SubSeq(phone, 2, Len(phone)))
        ELSE IF StartsWith(phone, <<"7">>) \/ StartsWith(phone, <<"1">>)
        THEN IF Len(phone) # 9
             THEN Raise("ValueError", "Invalid phone number format")
             ELSE Return(<<"2", "5", "4">> \o phone)
        ELSE Raise("ValueError", "Unsupported phone number format")

\* the phone arguments enumerated: a prefix, then n times the same digit,
\* then a tail; "+", "-" and " " are the non-digit characters
PhonePrefixes ==
    {<<>>, <<"2", "5", "4">>, <<"+", "2", "5", "4">>, <<"2", "5", "4", "7">>,
     <<"0">>, <<"0", "7">>, <<"7">>, <<"1">>, <<"2">>, <<"2", "5">>, <<"9">>, <<"-">>}
PhoneFillDigits == {"0", "1", "5", "7"}
PhoneTails == {<<>>, <<" ">>, <<"-", "3">>}

Fill(n, c) == [i \in 1..n |-> c]

PhoneInputs ==
    {pre \o Fill(n, c) \o tail :
        pre \in PhonePrefixes, n \in 0..MaxFill, c \in PhoneFillDigits, tail \in PhoneTails}

\* str.strip(), line 212
RECURSIVE LStrip(_)
LStrip(s) == IF s # <<>> /\ Head(s) = " " THEN LStrip(Tail(s)) ELSE s
RECURSIVE RStrip(_)
RStrip(s) == IF s # <<>> /\ s[Len(s)] = " " THEN RStrip(SubSeq(s, 1, Len(s) - 1)) ELSE s
PyStrip(s) == RStrip(LStrip(s))

(***************************************************************************)
(* retry_on_failure (app.py 34-48): what the wrapper does after attempt    *)
(* number `attempt` (counted from 0) of the wrapped function.              *)
(***************************************************************************)
\* lines 39-45 with one attempt more: the last attempt is number max_retries
retry_on_failure_one_more(raised, attempt, max_retries) ==
    IF ~raised THEN "return"
    ELSE IF attempt = max_retries THEN "raise"
    ELSE "retry"

\* lines 39-45 without line 43-44: the wrapper never gives up
retry_on_failure_forever(raised, attempt, max_retries) ==
    IF ~raised THEN "return" ELSE "retry"

retry_on_failure(raised, attempt, max_retries) ==
    IF ~raised THEN "return"
    ELSE IF attempt = max_retries - 1 THEN "raise"
    ELSE "retry"

GAT_MAX_RETRIES == 3
LIPA_MAX_RETRIES == 2
SAFETY_MARGIN == 300
DEFAULT_EXPIRES_IN == 3600

IdleCallback == [json |-> "none", body |-> "missing", stk |-> "missing",
                 rcKind |-> "missing", rcVal |-> 0, meta |-> "missing",
                 itemKind |-> "missing", items |-> <<>>]

(***************************************************************************)
(* The token cache (app.py 28-32) and get_access_token (app.py 89-123).    *)
(* A token is [id, own]: id 0 is the empty string and id k >= 1 the k-th   *)
(* token the provider issued; own is a history annotation, the cache       *)
(* expiry computed by the exchange that obtained the token.  An optional   *)
(* value is None or Some(x).                                               *)
(***************************************************************************)
NoToken == [id |-> 0, own |-> 0]
None == [some |-> FALSE, v |-> 0]
NoneToken == [some |-> FALSE, v |-> NoToken]
Some(x) == [some |-> TRUE, v |-> x]

Threads == 1..NumThreads

\* bool(token): None and "" are falsy
Truthy(tok) == tok.some /\ tok.v.id # 0

\* lines 95-97 with <= for <: a token is served at its expiry instant
cache_is_valid_at_expiry(cache, current_time) ==
    /\ cache.token.some /\ cache.token.v.id # 0
    /\ cache.expires_at.some
    /\ current_time <= cache.expires_at.v

\* the condition of lines 95-97 (a datetime is always truthy)
cache_is_valid(cache, current_time) ==
    /\ Truthy(cache.token)
    /\ cache.expires_at.some
    /\ current_time < cache.expires_at.v

\* int(token_data.get('expires_in', 3600)), line 112
expires_in_of(field) == IF field.some THEN field.v ELSE DEFAULT_EXPIRES_IN

\* line 116
cache_expiry(current_time, expires_in) == current_time + expires_in - SAFETY_MARGIN

\* what the token endpoint may answer: a token and its lifetime, a token that
\* is the empty string, a transport or HTTP error (RequestException), a body
\* without access_token (KeyError), an expires_in int() rejects (ValueError)
ExpiresInFields == {Some(SAFETY_MARGIN + 1), Some(SAFETY_MARGIN + 2), None}
GatOutcomes ==
    [kind : {"ok"}, expires_in : ExpiresInFields]
        \cup [kind : {"empty_token", "request_exception", "key_error", "bad_expires_in"},
              expires_in : {None}]

\* the exception get_access_token's body raises for a failed exchange
\* (lines 101-123: the ValueError of int() is caught by neither clause)
gat_exception(out) ==
    CASE out.kind = "request_exception" -> Raise("Exception", "Authentication failed: <detail>")
      [] out.kind = "key_error" -> Raise("Exception", "Invalid authentication response")
      [] OTHER -> Raise("ValueError", "invalid literal for int() with base 10: <detail>")

(***************************************************************************)
(* lipa_na_mpesa_online (app.py 125-198) and pay (app.py 204-234).         *)
(***************************************************************************)
PyNone == "<None>"
Missing == "<missing>"

PhoneShort == <<"0", "7", "1">>
PhonePadded == <<" ", "7", "1", "2", "3", "4", "5", "6", "7", "8", " ">>

Amt(kind, tenths) == [kind |-> kind, tenths |-> tenths]

\* the /pay requests enumerated: what get_json() does, the "phone" field
\* (missing, not a string, or a string) and the "amount" field
PayRequests ==
    [json : {"raises", "falsy", "scalar"}, phoneKind : {"missing"}, phone : {<<>>},
     amount : {Amt("empty", 0)}]
    \cup [json : {"dict"}, phoneKind : {"missing", "nonstr"}, phone : {<<>>},
          amount : {Amt("number", 1000)}]
    \cup [json : {"dict"}, phoneKind : {"str"}, phone : {PhonePadded, PhoneShort},
          amount : {Amt("number", 1000), Amt("numstr", 0), Amt("number", 0), Amt("text", 0)}]

NoRequest == [json |-> "none", phoneKind |-> "missing", phone |-> <<>>, amount |-> Amt("empty", 0)]

\* what the payment endpoint may answer
PostOutcomes ==
    [kind : {"timeout", "connection_error", "http_error", "bad_json", "non_dict"},
     code : {Missing}, desc : {Missing}, checkout : {Missing}, merchant : {Missing}]
    \cup [kind : {"json"}, code : {"0", "1", "int:0", Missing}, desc : {"X", Missing},
          checkout : {"ws_CO_1"}, merchant : {"mr_1"}]

\* dict.get(key): None for a missing key
PyGet(field) == IF field = Missing THEN PyNone ELSE field
\* dict.get(key, default)
PyGetDefault(field, default) == IF field = Missing THEN default ELSE field

NoResult == [success |-> FALSE, message |-> "", checkout_request_id |-> PyNone,
             merchant_request_id |-> PyNone, response_code |-> PyNone, branch |-> "none"]

Failure(message, branch) == [NoResult EXCEPT !.message = message, !.branch = branch]

\* lines 172-189 with the integer 0 taken for the string "0"
lipa_interpret_loose(resp) ==
    IF resp.code \in {"0", "int:0"}
    THEN [success |-> TRUE, message |-> "STK push sent successfully",
          checkout_request_id |-> PyGet(resp.checkout),
          merchant_request_id |-> PyGet(resp.merchant),
          response_code |-> PyGet(resp.code), branch |-> "sent"]
    ELSE [NoResult EXCEPT !.message = PyGetDefault(resp.desc, "Transaction failed"),
                          !.response_code = PyGet(resp.code),
                          !.branch = "rejected"]

\* lines 172-189: the result built from the provider's JSON answer
lipa_interpret(resp) ==
    IF resp.code = "0"
    THEN [success |-> TRUE, message |-> "STK push sent successfully",
          checkout_request_id |-> PyGet(resp.checkout),
          merchant_request_id |-> PyGet(resp.merchant),
          response_code |-> PyGet(resp.code), branch |-> "sent"]
    ELSE [NoResult EXCEPT !.message = PyGetDefault(resp.desc, "Transaction failed"),
                          !.response_code = PyGet(resp.code),
                          !.branch = "rejected"]

\* the exception lines 164-172 raise for an answer that is no JSON dict
post_exception(resp) ==
    CASE resp.kind = "timeout" -> Raise("Timeout", "Read timed out. (read timeout=30)")
      [] resp.kind = "connection_error" -> Raise("ConnectionError", "Connection refused")
      [] resp.kind = "http_error" -> Raise("HTTPError", "500 Server Error")
      [] resp.kind = "bad_json" -> Raise("ValueError", "Expecting value: line 1 column 1 (char 0)")
      [] OTHER -> Raise("AttributeError", "'list' object has no attribute 'get'")

RequestExceptions == {"Timeout", "ConnectionError", "HTTPError"}

\* lines 191-198 without the clause of line 193: a timeout leaves the function
\* as an exception
lipa_except_timeout_escapes(e) ==
    CASE e.exc = "ValueError" -> Return(Failure(e.msg, "ValueError"))
      [] e.exc = "Timeout" -> e
      [] e.exc \in RequestExceptions ->
            Return(Failure("Payment service temporarily unavailable", "RequestException"))
      [] OTHER -> Return(Failure("An unexpected error occurred", "Exception"))

\* the except clauses of lines 191-198, in their order: each returns a result
lipa_except(e) ==
    CASE e.exc = "ValueError" -> Return(Failure(e.msg, "ValueError"))
      [] e.exc = "Timeout" -> Return(Failure("Request timeout. Please try again.", "Timeout"))
      [] e.exc \in RequestExceptions ->
            Return(Failure("Payment service temporarily unavailable", "RequestException"))
      [] OTHER -> Return(Failure("An unexpected error occurred", "Exception"))

\* lines 130-131: the first validation that raises decides
lipa_validate(req) ==
    LET p == validate_phone_number(PyStrip(req.phone)) IN
    IF p.tag = "raise" THEN p ELSE validate_amount(req.amount)

\* "not amount", line 219
AmountFalsy(a) == a.kind \in {"empty", "null"} \/ (a.kind = "number" /\ a.tenths = 0)

\* pay, lines 206-220: the response given before lipa_na_mpesa_online is
\* called, or "proceed"
pay_early(req) ==
    CASE req.json = "raises" -> [status |-> 500, message |-> "Payment processing failed"]
      [] req.json = "falsy" -> [status |-> 400, message |-> "No data provided"]
      [] req.json = "scalar" -> [status |-> 500, message |-> "Payment processing failed"]
      [] req.phoneKind = "nonstr" -> [status |-> 500, message |-> "Payment processing failed"]
      [] req.phoneKind = "missing" \/ PyStrip(req.phone) = <<>> ->
            [status |-> 400, message |-> "Phone number is required"]
      [] AmountFalsy(req.amount) -> [status |-> 400, message |-> "Amount is required"]
      [] OTHER -> [status |-> 0, message |-> "proceed"]

\* pay, lines 225-228
pay_status(result) == IF result.success THEN 200 ELSE 400

(***************************************************************************)
(* A thread's record.  pc is its position:                                 *)
(*   idle / done        between requests                                   *)
(*   lipa               about to run the body of lipa_na_mpesa_online      *)
(*   gat_check          about to run the body of get_access_token          *)
(*   gat_return_cached  the check of lines 95-97 passed, line 98 is next   *)
(*   gat_wait           the credential exchange of line 103 is in flight   *)
(*   gat_write_token    line 115 is next;  gat_write_expiry  line 116      *)
(*   post_wait          the payment POST of line 164 is in flight          *)
(* The other fields are the locals of the functions, and a record of what  *)
(* the call did: stage (where it is, or where it failed), before (the      *)
(* cache when the request arrived), from_cache (line 98 returned the       *)
(* token), exchanges (credential exchanges sent), gatLog (how each         *)
(* exchange ended), gat_error (the message of the exception the wrapper of *)
(* get_access_token raised to the caller), postLog (how each payment POST  *)
(* ended) and post_resp (the last answer to a POST).                       *)
(***************************************************************************)
NoPost == [kind |-> "none", code |-> Missing, desc |-> Missing, checkout |-> Missing,
           merchant |-> Missing]
EmptyCache == [token |-> NoneToken, expires_at |-> None]

IdleThread ==
    [pc |-> "idle", entry |-> "none", req |-> NoRequest,
     lipa_attempt |-> 0, attempt |-> 0, current_time |-> 0,
     access_token |-> NoToken, expires_in |-> 0, token |-> NoToken,
     stage |-> "none", before |-> EmptyCache, from_cache |-> FALSE, exchanges |-> 0,
     gatLog |-> <<>>, gat_error |-> "",
     postLog |-> <<>>, post_resp |-> NoPost,
     result |-> NoResult, status |-> 0, message |-> ""]

\* pay, lines 223-234, once the body of lipa_na_mpesa_online has ended with
\* `out`: the retry wrapper of line 125 decides, then pay answers
AfterLipaBody(s, out) ==
    LET d == retry_on_failure(out.tag = "raise", s.lipa_attempt, LIPA_MAX_RETRIES) IN
    CASE d = "return" ->
            [s EXCEPT !.pc = "done", !.result = out.value,
                      !.status = pay_status(out.value), !.message = out.value.message]
      [] d = "retry" -> [s EXCEPT !.pc = "lipa", !.lipa_attempt = @ + 1]
      [] OTHER -> [s EXCEPT !.pc = "done", !.status = 500,
                            !.message = "Payment processing failed"]

\* health_check, lines 269-282, once get_access_token has ended
AfterHealth(s, out) ==
    IF out.tag = "raise"
    THEN [s EXCEPT !.pc = "done", !.status = 500, !.message = out.msg]
    ELSE [s EXCEPT !.pc = "done", !.status = 200, !.message = "healthy", !.token = out.value]

\* once the body of get_access_token has ended with `out`: the retry wrapper
\* of line 89 decides, then the caller goes on (lipa_na_mpesa_online sends the
\* POST of line 164, or its except clauses take the exception)
AfterGat(s, out) ==
    LET d == retry_on_failure(out.tag = "raise", s.attempt, GAT_MAX_RETRIES) IN
    CASE d = "retry" -> [s EXCEPT !.pc = "gat_check", !.attempt = @ + 1]
      [] d = "return" /\ s.entry = "pay" ->
            [s EXCEPT !.pc = "post_wait", !.token = out.value, !.stage = "submit"]
      [] d = "raise" /\ s.entry = "pay" ->
            AfterLipaBody([s EXCEPT !.gat_error = out.msg], lipa_except(out))
      [] d = "raise" -> AfterHealth([s EXCEPT !.gat_error = out.msg], out)
      [] OTHER -> AfterHealth(s, out)

\* lines 128-134 without the validation: the token is fetched at once
lipa_start_unvalidated(s) == [s EXCEPT !.pc = "gat_check", !.attempt = 0, !.stage = "token"]

\* lines 128-134: validation, then the call of get_access_token
lipa_start(s) ==
    LET v == lipa_validate(s.req) IN
    IF v.tag = "raise"
    THEN AfterLipaBody([s EXCEPT !.stage = "validate"], lipa_except(v))
    ELSE [s EXCEPT !.pc = "gat_check", !.attempt = 0, !.stage = "token"]

(***************************************************************************)
(* The environment.  workload.threads are the threads that serve requests; *)
(* workload.scope says which requests arrive and what the provider         *)
(* answers: "full" is every enumerated one, "narrow" one request of each   *)
(* fate and a few provider answers.                                        *)
(***************************************************************************)
Workload(threads, scope) == [threads |-> threads, scope |-> scope]

Requests(w) ==
    IF w.scope = "full" THEN PayRequests
    ELSE {r \in PayRequests : r.json = "dict" /\ r.phoneKind = "str"
                                /\ r.amount \in {Amt("number", 1000), Amt("text", 0)}
                                /\ r.phone = PhonePadded}

TokenAnswers(w) ==
    IF w.scope = "full" THEN GatOutcomes
    ELSE {o \in GatOutcomes : o.kind = "ok" /\ o.expires_in # None}

PostAnswers(w) ==
    IF w.scope = "full" THEN PostOutcomes
    ELSE {o \in PostOutcomes : o.kind = "timeout"
                                   \/ (o.kind = "json" /\ o.code \in {"0", "1"} /\ o.desc = "X")}

(***************************************************************************)
(* Actions.                                                                *)
(***************************************************************************)
Set(t, s) == th' = [th EXCEPT ![t] = s]

CanStart(t) == t \in workload.threads /\ th[t].pc \in {"idle", "done"} /\ budget > 0

\* POST /pay arrives: pay runs up to the call of lipa_na_mpesa_online
PayCall(t) ==
    /\ CanStart(t)
    /\ \E r \in Requests(workload) :
          LET e == pay_early(r)
              s == [IdleThread EXCEPT !.entry = "pay", !.req = r,
                                      !.before = access_token_cache] IN
          IF e.message = "proceed"
          THEN Set(t, [s EXCEPT !.pc = "lipa"])
          ELSE Set(t, [s EXCEPT !.pc = "done", !.status = e.status, !.message = e.message])
    /\ budget' = budget - 1
    /\ UNCHANGED <<now, access_token_cache, issued, workload, unitVars>>

\* GET /health arrives: health_check calls get_access_token
HealthCall(t) ==
    /\ CanStart(t)
    /\ Set(t, [IdleThread EXCEPT !.pc = "gat_check", !.entry = "health", !.stage = "token",
                                 !.before = access_token_cache])
    /\ budget' = budget - 1
    /\ UNCHANGED <<now, access_token_cache, issued, workload, unitVars>>

\* the body of lipa_na_mpesa_online starts
LipaStart(t) ==
    /\ th[t].pc = "lipa"
    /\ Set(t, lipa_start(th[t]))
    /\ UNCHANGED <<now, access_token_cache, issued, budget, workload, unitVars>>

\* lines 92-107: the clock is read, the cache is checked, and on a miss the
\* credential exchange is sent
GatCheck(t) ==
    /\ th[t].pc = "gat_check"
    /\ LET s == [th[t] EXCEPT !.current_time = now] IN
       IF cache_is_valid(access_token_cache, now)
       THEN Set(t, [s EXCEPT !.pc = "gat_return_cached"])
       ELSE Set(t, [s EXCEPT !.pc = "gat_wait", !.exchanges = @ + 1])
    /\ UNCHANGED <<now, access_token_cache, issued, budget, workload, unitVars>>

\* line 98: the cached token is read again and returned
GatReturnCached(t) ==
    /\ th[t].pc = "gat_return_cached"
    /\ Set(t, AfterGat([th[t] EXCEPT !.from_cache = TRUE], Return(access_token_cache.token.v)))
    /\ UNCHANGED <<now, access_token_cache, issued, budget, workload, unitVars>>

\* lines 103-116 with line 115 moved before line 112: the token is cached
\* before expires_in is parsed
GatResponse_caches_early(t) ==
    /\ th[t].pc = "gat_wait"
    /\ \E out \in TokenAnswers(workload) :
          IF out.kind \in {"ok", "empty_token"}
          THEN LET e == expires_in_of(out.expires_in)
                   own == cache_expiry(th[t].current_time, e) IN
               /\ issued' = IF out.kind = "ok" THEN issued + 1 ELSE issued
               /\ Set(t, [th[t] EXCEPT !.pc = "gat_write_token",
                                       !.gatLog = Append(@, out.kind),
                                       !.access_token =
                                           [id |-> IF out.kind = "ok" THEN issued + 1 ELSE 0,
                                            own |-> own],
                                       !.expires_in = e])
               /\ UNCHANGED access_token_cache
          ELSE /\ Set(t, AfterGat([th[t] EXCEPT !.gatLog = Append(@, out.kind)],
                                   gat_exception(out)))
               /\ issued' = IF out.kind = "bad_expires_in" THEN issued + 1 ELSE issued
               /\ access_token_cache' =
                      IF out.kind = "bad_expires_in"
                      THEN [access_token_cache EXCEPT
                               !.token = Some([id |-> issued + 1, own |-> 0])]
                      ELSE access_token_cache
    /\ UNCHANGED <<now, budget, workload, unitVars>>

\* lines 103-112: the exchange is answered
GatResponse(t) ==
    /\ th[t].pc = "gat_wait"
    /\ \E out \in TokenAnswers(workload) :
          IF out.kind \in {"ok", "empty_token"}
          THEN LET e == expires_in_of(out.expires_in)
                   own == cache_expiry(th[t].current_time, e) IN
               /\ issued' = IF out.kind = "ok" THEN issued + 1 ELSE issued
               /\ Set(t, [th[t] EXCEPT !.pc = "gat_write_token",
                                       !.gatLog = Append(@, out.kind),
                                       !.access_token =
                                           [id |-> IF out.kind = "ok" THEN issued + 1 ELSE 0,
                                            own |-> own],
                                       !.expires_in = e])
          ELSE /\ Set(t, AfterGat([th[t] EXCEPT !.gatLog = Append(@, out.kind)],
                                   gat_exception(out)))
               /\ UNCHANGED issued
    /\ UNCHANGED <<now, access_token_cache, budget, workload, unitVars>>

\* line 115
GatWriteToken(t) ==
    /\ th[t].pc = "gat_write_token"
    /\ access_token_cache' = [access_token_cache EXCEPT !.token = Some(th[t].access_token)]
    /\ Set(t, [th[t] EXCEPT !.pc = "gat_write_expiry"])
    /\ UNCHANGED <<now, issued, budget, workload, unitVars>>

\* lines 116-118
GatWriteExpiry(t) ==
    /\ th[t].pc = "gat_write_expiry"
    /\ access_token_cache' =
          [access_token_cache EXCEPT
              !.expires_at = Some(cache_expiry(th[t].current_time, th[t].expires_in))]
    /\ Set(t, AfterGat(th[t], Return(th[t].access_token)))
    /\ UNCHANGED <<now, issued, budget, workload, unitVars>>

\* lines 164-198: the payment POST is answered
PostResponse(t) ==
    /\ th[t].pc = "post_wait"
    /\ \E out \in PostAnswers(workload) :
          LET s == [th[t] EXCEPT !.postLog = Append(@, out.kind), !.post_resp = out] IN
          Set(t, AfterLipaBody(s, IF out.kind = "json"
                                  THEN Return(lipa_interpret(out))
                                  ELSE lipa_except(post_exception(out))))
    /\ UNCHANGED <<now, access_token_cache, issued, budget, workload, unitVars>>

\* time passes
Tick ==
    /\ now < MaxTime
    /\ now' = now + 1
    /\ UNCHANGED <<access_token_cache, issued, th, budget, workload, unitVars>>

Next ==
    \/ \E t \in Threads : PayCall(t)
    \/ \E t \in Threads : HealthCall(t)
    \/ \E t \in Threads : LipaStart(t)
    \/ \E t \in Threads : GatCheck(t)
    \/ \E t \in Threads : GatReturnCached(t)
    \/ \E t \in Threads : GatResponse(t)
    \/ \E t \in Threads : GatWriteToken(t)
    \/ \E t \in Threads : GatWriteExpiry(t)
    \/ \E t \in Threads : PostResponse(t)
    \/ Tick

IdlePhone ==
    /\ phoneIn = <<>>
    /\ phoneOut = NotCalled
    /\ phoneAgain = NotCalled

InitUnit ==
    /\ amountIn = [kind |-> "null", tenths |-> 0]
    /\ amountOut = NotCalled
    /\ cbData = IdleCallback
    /\ cbResp = NoResponse
    /\ IdlePhone

InitApp(b, w) ==
    /\ now = 0
    /\ access_token_cache = EmptyCache
    /\ issued = 0
    /\ th = [t \in Threads |-> IdleThread]
    /\ budget = b
    /\ workload = w

\* the threaded host: every thread handles requests, concurrently
Init == InitUnit /\ InitApp(MaxRequests, Workload(Threads, "narrow"))

Spec == Init /\ [][Next]_vars

\* one thread handles the requests one after the other
InitSequential == InitUnit /\ InitApp(MaxRequests, Workload({1}, "full"))

SpecSequential == InitSequential /\ [][Next]_vars

\* a request that has arrived is handled to its end: the interpreter runs
\* each thread, time.sleep returns, and every outbound call is answered or
\* times out (timeout=30, lines 106 and 168)
ThreadStep(t) ==
    \/ LipaStart(t)
    \/ GatCheck(t)
    \/ GatReturnCached(t)
    \/ GatResponse(t)
    \/ GatWriteToken(t)
    \/ GatWriteExpiry(t)
    \/ PostResponse(t)

InitLive == InitUnit /\ InitApp(LiveRequests, Workload({1}, "full"))

SpecLive == InitLive /\ [][Next]_vars /\ \A t \in Threads : WF_vars(ThreadStep(t))

(***************************************************************************)
(* Specification of the pure parts: one call of validate_amount.           *)
(***************************************************************************)
InitValidate ==
    /\ amountIn \in RawAmounts
    /\ amountOut = NotCalled
    /\ cbData = IdleCallback
    /\ cbResp = NoResponse
    /\ IdlePhone
    /\ InitApp(0, Workload({}, "full"))

CallValidateAmount ==
    /\ amountOut = NotCalled
    /\ amountOut' = validate_amount(amountIn)
    /\ UNCHANGED <<amountIn, cbData, cbResp, phoneIn, phoneOut, phoneAgain, appVars>>

NextValidate == CallValidateAmount

SpecValidate == InitValidate /\ [][NextValidate]_vars

(***************************************************************************)
(* Specification of the pure parts: validate_phone_number, called on an    *)
(* argument and then on its own result.                                    *)
(***************************************************************************)
InitPhone ==
    /\ phoneIn \in PhoneInputs
    /\ phoneOut = NotCalled
    /\ phoneAgain = NotCalled
    /\ amountIn = [kind |-> "null", tenths |-> 0]
    /\ amountOut = NotCalled
    /\ cbData = IdleCallback
    /\ cbResp = NoResponse
    /\ InitApp(0, Workload({}, "full"))

CallValidatePhone ==
    /\ phoneOut.tag = "not_called"
    /\ phoneOut' = validate_phone_number(phoneIn)
    /\ UNCHANGED <<phoneIn, phoneAgain, amountIn, amountOut, cbData, cbResp, appVars>>

CallValidatePhoneAgain ==
    /\ phoneOut.tag = "return"
    /\ phoneAgain.tag = "not_called"
    /\ phoneAgain' = validate_phone_number(phoneOut.value)
    /\ UNCHANGED <<phoneIn, phoneOut, amountIn, amountOut, cbData, cbResp, appVars>>

NextPhone == CallValidatePhone \/ CallValidatePhoneAgain

SpecPhone == InitPhone /\ [][NextPhone]_vars

(***************************************************************************)
(* Specification of the callback endpoint: one request.                    *)
(***************************************************************************)
InitCallback ==
    /\ cbData \in CallbackRequests
    /\ cbResp = NoResponse
    /\ amountIn = [kind |-> "null", tenths |-> 0]
    /\ amountOut = NotCalled
    /\ IdlePhone
    /\ InitApp(0, Workload({}, "full"))

\* lines 239-264 with a handler that also drops the cached token
HandleCallback_drops_cache ==
    /\ cbResp = NoResponse
    /\ cbResp' = callback(cbData)
    /\ access_token_cache' = EmptyCache
    /\ UNCHANGED <<cbData, amountIn, amountOut, phoneIn, phoneOut, phoneAgain,
                   now, issued, th, budget, workload>>

HandleCallback ==
    /\ cbResp = NoResponse
    /\ cbResp' = callback(cbData)
    /\ UNCHANGED <<cbData, amountIn, amountOut, phoneIn, phoneOut, phoneAgain, appVars>>

NextCallback == HandleCallback

SpecCallback == InitCallback /\ [][NextCallback]_vars

(***************************************************************************)
(* Properties.                                                             *)
(***************************************************************************)
PayDone(t) == th[t].entry = "pay" /\ th[t].pc = "done"

\* get_access_token has returned a token to its caller
GatReturned(t) ==
    \/ th[t].entry = "pay" /\ th[t].pc = "post_wait"
    \/ th[t].entry = "health" /\ th[t].pc = "done" /\ th[t].status = 200

AllTimeouts(log) == log # <<>> /\ \A i \in 1..Len(log) : log[i] = "timeout"

\* C1: when every payment POST of a call times out, the POST is attempted
\* exactly max_retries = 2 times and the call then returns success=false with
\* the generic unavailable message.
C1_TimeoutRetriedTwice ==
    \A t \in Threads :
        PayDone(t) /\ AllTimeouts(th[t].postLog) =>
            /\ Len(th[t].postLog) = LIPA_MAX_RETRIES
            /\ ~th[t].result.success
            /\ th[t].message = "Payment service temporarily unavailable"

\* C2: a callback whose JSON body is present and parseable is answered 200
\* {ResultCode: 0, ResultDesc: "Accepted"} whatever its shape; ResultCode 1 is
\* answered only to a request without such a body.
ParseableBody(req) == req.json \in {"falsy", "scalar", "dict"}

C2_ParseableBodyAccepted ==
    cbResp # NoResponse =>
        /\ ParseableBody(cbData) => cbResp = Response(200, 0, "Accepted")
        /\ cbResp.ResultCode = 1 => ~ParseableBody(cbData)

\* C3: the refresh of the token cache is mutually exclusive: at most one
\* caller at a time is between the failed cache check and the end of its
\* cache write, so at most one credential exchange is in flight.
Refreshing(t) == th[t].pc \in {"gat_wait", "gat_write_token", "gat_write_expiry"}

C3_SingleFlight == Cardinality({t \in Threads : Refreshing(t)}) <= 1

\* C4: sequential calls of get_access_token whose exchanges succeed (no
\* attempt of the call failed; a token that is served again is a non-empty
\* string).  With the cache empty the call performs exactly one exchange; with
\* a cached token and now < expires_at it performs none and returns the cached
\* token; with now >= expires_at it performs exactly one exchange and replaces
\* the cached token and the cached expiry.
C4_ExchangePerCall ==
    \A t \in Threads :
        GatReturned(t) /\ th[t].attempt = 0 =>
            LET s == th[t]
                b == s.before IN
            /\ ~b.token.some => s.exchanges = 1
            /\ (Truthy(b.token) /\ b.expires_at.some /\ s.current_time < b.expires_at.v) =>
                    /\ s.exchanges = 0
                    /\ s.token = b.token.v
                    /\ access_token_cache = b
            /\ (b.expires_at.some /\ s.current_time >= b.expires_at.v) =>
                    /\ s.exchanges = 1
                    /\ s.token = s.access_token
                    /\ access_token_cache.token = Some(s.token)
                    /\ access_token_cache.expires_at =
                           Some(s.current_time + s.expires_in - SAFETY_MARGIN)

\* a call at or after the cached expiry has fetched a new token
C4_RefreshedAfterExpiry ==
    \E t \in Threads :
        /\ GatReturned(t) /\ th[t].attempt = 0
        /\ Truthy(th[t].before.token) /\ th[t].before.expires_at.some
        /\ th[t].current_time >= th[t].before.expires_at.v
        /\ th[t].exchanges = 1
        /\ th[t].token.id # th[t].before.token.v.id

\* a call within the cached window has been served from the cache
C4_ServedFromCache ==
    \E t \in Threads :
        /\ GatReturned(t) /\ th[t].attempt = 0
        /\ Truthy(th[t].before.token) /\ th[t].before.expires_at.some
        /\ th[t].current_time < th[t].before.expires_at.v
        /\ th[t].exchanges = 0

\* C5: a token that get_access_token returns from the cache (line 98), in a
\* call that read the clock at t, was obtained by an exchange whose own
\* start + expires_in - 300 is greater than t.
C5_ServedBeforeOwnExpiry ==
    \A t \in Threads :
        th[t].from_cache => th[t].current_time < th[t].token.own

\* C6: every value validate_amount returns is an integer a with
\* 0 < a <= 70000.
C6_AmountInRange ==
    amountOut.tag = "return" => 0 < amountOut.value /\ amountOut.value <= AMOUNT_LIMIT

\* C7: the error of validate_amount tells which condition occurred: an
\* unparsable input, a parsed value <= 0, or a parsed value above 70000.
C7_DistinctErrors ==
    amountOut.tag = "raise" =>
        LET f == PyFloat(amountIn) IN
        /\ f.tag = "raise" => amountOut.msg = "Invalid amount format"
        /\ (f.tag = "finite" /\ f.tenths <= 0) => amountOut.msg = "Amount must be greater than 0"
        /\ (f.tag = "inf" \/ (f.tag = "finite" /\ f.tenths > AMOUNT_LIMIT * 10)) =>
                amountOut.msg = "Amount exceeds daily transaction limit"

\* C8: a JSON answer of the provider to the payment POST ends the call after
\* that one POST: ResponseCode "0" gives success=true with the answer's
\* CheckoutRequestID and MerchantRequestID, any other ResponseCode gives
\* success=false with the answer's ResponseDescription and code.
C8_ProviderAnswerIsFinal ==
    \A t \in Threads :
        th[t].post_resp.kind = "json" =>
            LET s == th[t]
                r == s.post_resp IN
            /\ s.pc = "done"
            /\ Len(s.postLog) = 1
            /\ IF r.code = "0"
               THEN /\ s.result.success
                    /\ s.result.checkout_request_id = r.checkout
                    /\ s.result.merchant_request_id = r.merchant
               ELSE /\ ~s.result.success
                    /\ r.desc # Missing => s.result.message = r.desc
                    /\ r.code # Missing => s.result.response_code = r.code

\* a provider rejection has been returned
C8_RejectionReturned ==
    \E t \in Threads :
        /\ PayDone(t)
        /\ th[t].post_resp.kind = "json" /\ th[t].post_resp.code = "int:0"
        /\ th[t].post_resp.desc = "X"
        /\ th[t].result.message = "X" /\ ~th[t].result.success

\* C9: a /pay call whose phone number or amount fails validation sends no
\* credential exchange and no payment POST, leaves the token cache as it was,
\* and returns success=false with the validation message.
FailsValidation(req) ==
    pay_early(req).message = "proceed" /\ lipa_validate(req).tag = "raise"

C9_ValidationShortCircuits ==
    \A t \in Threads :
        PayDone(t) /\ FailsValidation(th[t].req) =>
            /\ th[t].exchanges = 0
            /\ th[t].postLog = <<>>
            /\ access_token_cache = th[t].before
            /\ ~th[t].result.success
            /\ th[t].result.message = lipa_validate(th[t].req).msg

\* a call has failed validation while a token was cached
C9_ValidationFailedWithCache ==
    \E t \in Threads :
        /\ PayDone(t) /\ FailsValidation(th[t].req)
        /\ th[t].stage = "validate"
        /\ th[t].before.token.some
        /\ th[t].message = "Invalid amount format"

\* C10: /pay answers 200 exactly when the submission succeeded, 400 for a
\* validation failure or a provider rejection, and 500 for every unexpected
\* failure, a failure of the token acquisition included.
UnexpectedFailure(s) == s.stage = "token" \/ s.result.branch = "Exception"

C10_StatusClasses ==
    \A t \in Threads :
        PayDone(t) =>
            /\ th[t].status = 200 <=> th[t].result.success
            /\ (th[t].stage = "validate" \/ th[t].result.branch = "rejected") => th[t].status = 400
            /\ UnexpectedFailure(th[t]) => th[t].status = 500

(***************************************************************************)
(* Specification of a callback that arrives while /pay requests are        *)
(* handled: before, during or after a submission.                          *)
(***************************************************************************)
\* the provider's callback for a payment that succeeded, for one that
\* failed, and a body that is an empty JSON object
CallbackSample ==
    {[IdleCallback EXCEPT !.json = "dict", !.body = "dict", !.stk = "dict",
                          !.rcKind = "int", !.rcVal = 0, !.meta = "dict",
                          !.itemKind = "list", !.items = <<"pair", "pair">>],
     [IdleCallback EXCEPT !.json = "dict", !.body = "dict", !.stk = "dict",
                          !.rcKind = "int", !.rcVal = 1],
     [IdleCallback EXCEPT !.json = "falsy"]}

InitInterleaved ==
    /\ cbData \in CallbackSample
    /\ cbResp = NoResponse
    /\ amountIn = [kind |-> "null", tenths |-> 0]
    /\ amountOut = NotCalled
    /\ IdlePhone
    /\ InitApp(LiveRequests, Workload({1}, "full"))

NextInterleaved == Next \/ HandleCallback

SpecInterleaved == InitInterleaved /\ [][NextInterleaved]_vars

\* C11: with d the argument stripped of non-digit characters,
\* validate_phone_number returns d when d starts with 254 and has 12 digits,
\* 254 and the last 9 digits of d when d starts with 0 and has 10 digits,
\* 254 and d when d starts with 7 or 1 and has 9 digits, and fails for every
\* other argument.
LeadsWith(d, digits) == d # <<>> /\ d[1] \in digits

C11_PhoneContract ==
    phoneOut.tag # "not_called" =>
        LET d == SelectSeq(phoneIn, LAMBDA c : c \in Digits)
            n == Len(d)
            cc == <<"2", "5", "4">> IN
        IF n = 12 /\ SubSeq(d, 1, 3) = cc
        THEN phoneOut.tag = "return" /\ phoneOut.value = d
        ELSE IF n = 10 /\ LeadsWith(d, {"0"})
        THEN phoneOut.tag = "return" /\ phoneOut.value = cc \o SubSeq(d, 2, 10)
        ELSE IF n = 9 /\ LeadsWith(d, {"7", "1"})
        THEN phoneOut.tag = "return" /\ phoneOut.value = cc \o d
        ELSE phoneOut.tag = "raise"

\* a 10-digit leading-zero argument written with separators has been
\* normalised
C11_LeadingZeroNormalised ==
    /\ phoneIn = <<"0", "7">> \o Fill(7, "1") \o <<"-", "3">>
    /\ phoneOut.tag = "return"
    /\ phoneOut.value = <<"2", "5", "4", "7">> \o Fill(7, "1") \o <<"3">>

\* C12: one call of get_access_token that finds the cache empty or expired
\* sends at most 3 credential exchanges.  It stops at the first exchange that
\* succeeds; when every exchange fails with a network or HTTP error or an
\* answer without access_token, it sends exactly 3 and raises the
\* authentication failure to its caller.
GatRaised(t) == th[t].pc = "done" /\ th[t].gat_error # ""

ExchangeSucceeded(kind) == kind \in {"ok", "empty_token"}

AuthenticationFailures == {"Authentication failed: <detail>", "Invalid authentication response"}

C12_BoundedExchanges ==
    \A t \in Threads :
        LET s == th[t]
            log == s.gatLog IN
        /\ s.exchanges <= GAT_MAX_RETRIES
        /\ \A i \in 1..Len(log) : ExchangeSucceeded(log[i]) => i = Len(log)
        /\ (GatReturned(t) /\ ~s.from_cache) =>
                /\ log # <<>> /\ ExchangeSucceeded(log[Len(log)])
                /\ s.exchanges = Len(log)
        /\ (s.pc \in {"done", "post_wait"} /\ log # <<>>
                /\ \A i \in 1..Len(log) : log[i] \in {"request_exception", "key_error"}) =>
                /\ Len(log) = GAT_MAX_RETRIES
                /\ s.exchanges = GAT_MAX_RETRIES
                /\ GatRaised(t)
                /\ s.gat_error \in AuthenticationFailures

\* a call has raised after three failed exchanges of both kinds
C12_RaisedAfterThree ==
    \E t \in Threads :
        /\ GatRaised(t)
        /\ th[t].gatLog = <<"request_exception", "key_error", "request_exception">>
        /\ th[t].gat_error = "Authentication failed: <detail>"

\* a call has succeeded at its third exchange
C12_SucceededAtThird ==
    \E t \in Threads :
        /\ GatReturned(t) /\ ~th[t].from_cache
        /\ th[t].gatLog = <<"key_error", "request_exception", "ok">>

\* C13: when lipa_na_mpesa_online fails for a reason that is neither a
\* validation error nor a provider rejection, its message is the one generic
\* unavailable message whichever exception occurred (timeout, connection
\* error, malformed token answer), and it is never the exception's own text.
InternalFailure(s) ==
    \/ s.gat_error # ""
    \/ s.stage = "submit" /\ s.post_resp.kind \notin {"none", "json"}

ExceptionTexts ==
    {gat_exception(o).msg : o \in GatOutcomes} \cup {post_exception(o).msg : o \in PostOutcomes}

C13_GenericFailureMessage ==
    \A t \in Threads :
        PayDone(t) /\ InternalFailure(th[t]) =>
            /\ th[t].message \notin ExceptionTexts
            /\ th[t].message = "Payment service temporarily unavailable"

\* C14: the cache is replaced atomically: whenever a caller is about to read
\* the cache (lines 95-97), the cached token and the cached expires_at are
\* both unset or were both written by the same exchange.
SameExchange(cache) ==
    IF cache.token.some
    THEN cache.expires_at.some /\ cache.expires_at.v = cache.token.v.own
    ELSE ~cache.expires_at.some

C14_CachePairObserved ==
    (\E t \in Threads : th[t].pc = "gat_check") => SameExchange(access_token_cache)

\* C15: every value validate_phone_number returns is a subscriber number in
\* canonical form: 12 digits, 254 followed by a 9-digit subscriber number that
\* begins with 7 or 1.
CanonicalSubscriber(p) ==
    /\ Len(p) = 12
    /\ \A i \in 1..Len(p) : p[i] \in Digits
    /\ SubSeq(p, 1, 3) = <<"2", "5", "4">>
    /\ p[4] \in {"7", "1"}

C15_CanonicalSubscriber ==
    phoneOut.tag = "return" => CanonicalSubscriber(phoneOut.value)

\* C16: every /pay request ends with a response, after at most 3 credential
\* exchanges and one payment POST.
PayInFlight(t) == th[t].entry = "pay" /\ th[t].pc # "done"

OutboundCalls(s) == s.exchanges + Len(s.postLog)

C16_PayTerminates ==
    /\ [](\A t \in Threads : OutboundCalls(th[t]) <= GAT_MAX_RETRIES + 1)
    /\ \A t \in Threads : PayInFlight(t) ~> (PayDone(t) /\ th[t].status # 0)

\* a request has ended after the largest number of outbound calls
C16_EndedAfterFourCalls ==
    \E t \in Threads :
        /\ PayDone(t) /\ th[t].status # 0
        /\ th[t].exchanges = GAT_MAX_RETRIES
        /\ Len(th[t].postLog) = 1

\* C17: a callback is handled the same way wherever it falls among the steps
\* of /pay requests: its response depends on its body alone, the step sends
\* no outbound call and changes neither the token cache nor any request in
\* flight.
C17_CallbackIndependent ==
    [][cbResp' # cbResp =>
          /\ cbResp' = IF cbData.json = "falsy"
                       THEN Response(400, 1, "Invalid data")
                       ELSE Response(200, 0, "Accepted")
          /\ UNCHANGED <<access_token_cache, issued, th, budget>>]_vars

\* the callback of a submission has been accepted while the submission's
\* POST was still unanswered and a token was cached
C17_CallbackBeforeResponse ==
    /\ cbResp = Response(200, 0, "Accepted")
    /\ access_token_cache.token.some
    /\ \E t \in Threads : th[t].pc = "post_wait" /\ th[t].postLog = <<>>

\* C18: one /pay request sends at most one payment POST, whatever the answer
\* to that POST: the body of lipa_na_mpesa_online runs once.
C18_AtMostOnePost ==
    \A t \in Threads :
        /\ Len(th[t].postLog) <= 1
        /\ th[t].lipa_attempt = 0
        /\ th[t].postLog # <<>> => th[t].pc = "done"

\* a request has ended after one POST that timed out
C18_OnePostTimedOut ==
    \E t \in Threads :
        /\ PayDone(t)
        /\ th[t].postLog = <<"timeout">>
        /\ th[t].message = "Request timeout. Please try again."

\* C19: a call of get_access_token in which every exchange fails leaves the
\* token cache, token and expires_at, as it was before the call; the cache is
\* written only by a call whose exchange returned access_token and whose
\* answer has been parsed (lines 110-112).
WritesCache(t) ==
    /\ th[t].pc \in {"gat_write_token", "gat_write_expiry"}
    /\ th[t].gatLog # <<>>
    /\ ExchangeSucceeded(th[t].gatLog[Len(th[t].gatLog)])

C19_FailedCallKeepsCache ==
    /\ [](\A t \in Threads : GatRaised(t) => access_token_cache = th[t].before)
    /\ [][access_token_cache' # access_token_cache =>
              \E t \in Threads : WritesCache(t) /\ th'[t].pc # th[t].pc]_vars

\* a call has failed three times on an expired cache, an unparsable
\* expires_in among the failures, and the expired token is still cached
C19_FailedOnExpiredCache ==
    \E t \in Threads :
        /\ GatRaised(t)
        /\ th[t].gatLog = <<"request_exception", "key_error", "bad_expires_in">>
        /\ Truthy(th[t].before.token)
        /\ access_token_cache = th[t].before

\* C20: validate_phone_number is idempotent, and it treats the three
\* spellings of one subscriber number alike: 254 and the 9 digits, 0 and the
\* 9 digits, and the 9 digits alone are all accepted with the same result or
\* all rejected.
Accepted(out) == out.tag = "return"

\* the 9-digit subscriber number of an argument written in one of the three
\* spellings, or <<>>
SubscriberOf(d) ==
    CASE Len(d) = 12 /\ SubSeq(d, 1, 3) = <<"2", "5", "4">> -> SubSeq(d, 4, 12)
      [] Len(d) = 10 /\ d[1] = "0" -> SubSeq(d, 2, 10)
      [] Len(d) = 9 -> d
      [] OTHER -> <<>>

SameOutcome(a, b) ==
    /\ Accepted(a) = Accepted(b)
    /\ Accepted(a) => a.value = b.value

C20_IdempotentAllSpellings ==
    /\ phoneAgain.tag # "not_called" =>
            Accepted(phoneAgain) /\ phoneAgain.value = phoneOut.value
    /\ phoneOut.tag # "not_called" =>
            LET s == SubscriberOf(SelectSeq(phoneIn, LAMBDA c : c \in Digits)) IN
            s # <<>> =>
                /\ SameOutcome(phoneOut, validate_phone_number(<<"2", "5", "4">> \o s))
                /\ SameOutcome(phoneOut, validate_phone_number(<<"0">> \o s))
                /\ SameOutcome(phoneOut, validate_phone_number(s))

====
